---- MODULE Spec2Model ----
(***************************************************************************)
(* Model of src/ai/talent_finder.py: class TalentFinderAI.                 *)
(*                                                                         *)
(* Text is a sequence of one-character strings, so that lower(), title()   *)
(* and the substring test `skill in text_lower` are computed, not assumed. *)
(* The pretrained models (NER pipeline, sentence embedder, T5) are outside *)
(* the repository: their outputs are nondeterministic choices from small   *)
(* sets.                                                                   *)
(***************************************************************************)
EXTENDS Integers, Sequences, FiniteSets, TLC

(* ------------------------------ bounds --------------------------------- *)
\* texts are concatenations of at most MaxFrags fragments
MaxFrags == 2
\* find_top_candidates receives at most MaxCandidates profiles
MaxCandidates == 3
\* top_k ranges over -MaxTopK .. MaxTopK
MaxTopK == 3
\* scores are fixed-point numbers with ScoreScale units per 1.0
ScoreScale == 10

(* --------------------------- character data ---------------------------- *)
UpperCase ==
    <<"A", "B", "C", "D", "E", "F", "G", "H", "I", "J", "K", "L", "M", "N", "O", "P", "Q", "R", "S", "T", "U", "V", "W", "X", "Y", "Z">>
LowerCase ==
    <<"a", "b", "c", "d", "e", "f", "g", "h", "i", "j", "k", "l", "m", "n", "o", "p", "q", "r", "s", "t", "u", "v", "w", "x", "y", "z">>

\* extract_skills: the fixed keyword list
skills_keywords ==
    << <<"p", "y", "t", "h", "o", "n">>,
       <<"j", "a", "v", "a", "s", "c", "r", "i", "p", "t">>,
       <<"j", "a", "v", "a">>,
       <<"r", "e", "a", "c", "t">>,
       <<"a", "n", "g", "u", "l", "a", "r">>,
       <<"v", "u", "e">>,
       <<"n", "o", "d", "e", ".", "j", "s">>,
       <<"s", "q", "l">>,
       <<"m", "o", "n", "g", "o", "d", "b">>,
       <<"p", "o", "s", "t", "g", "r", "e", "s", "q", "l">>,
       <<"a", "w", "s">>,
       <<"a", "z", "u", "r", "e">>,
       <<"d", "o", "c", "k", "e", "r">>,
       <<"k", "u", "b", "e", "r", "n", "e", "t", "e", "s">>,
       <<"m", "a", "c", "h", "i", "n", "e", " ", "l", "e", "a", "r", "n", "i", "n", "g">>,
       <<"a", "i">>,
       <<"t", "e", "n", "s", "o", "r", "f", "l", "o", "w">>,
       <<"p", "y", "t", "o", "r", "c", "h">>,
       <<"l", "e", "a", "d", "e", "r", "s", "h", "i", "p">>,
       <<"c", "o", "m", "m", "u", "n", "i", "c", "a", "t", "i", "o", "n">>,
       <<"p", "r", "o", "j", "e", "c", "t", " ", "m", "a", "n", "a", "g", "e", "m", "e", "n", "t">>,
       <<"a", "g", "i", "l", "e">>,
       <<"s", "c", "r", "u", "m">> >>

\* parse_resume: the (longer) fixed keyword list
resume_skills_keywords ==
    << <<"p", "y", "t", "h", "o", "n">>,
       <<"j", "a", "v", "a", "s", "c", "r", "i", "p", "t">>,
       <<"j", "a", "v", "a">>,
       <<"r", "e", "a", "c", "t">>,
       <<"a", "n", "g", "u", "l", "a", "r">>,
       <<"v", "u", "e">>,
       <<"n", "o", "d", "e", ".", "j", "s">>,
       <<"s", "q", "l">>,
       <<"m", "o", "n", "g", "o", "d", "b">>,
       <<"p", "o", "s", "t", "g", "r", "e", "s", "q", "l">>,
       <<"m", "y", "s", "q", "l">>,
       <<"r", "e", "d", "i", "s">>,
       <<"a", "w", "s">>,
       <<"a", "z", "u", "r", "e">>,
       <<"g", "c", "p">>,
       <<"d", "o", "c", "k", "e", "r">>,
       <<"k", "u", "b", "e", "r", "n", "e", "t", "e", "s">>,
       <<"j", "e", "n", "k", "i", "n", "s">>,
       <<"g", "i", "t">>,
       <<"g", "i", "t", "h", "u", "b">>,
       <<"g", "i", "t", "l", "a", "b">>,
       <<"c", "i", "/", "c", "d">>,
       <<"m", "a", "c", "h", "i", "n", "e", " ", "l", "e", "a", "r", "n", "i", "n", "g">>,
       <<"d", "e", "e", "p", " ", "l", "e", "a", "r", "n", "i", "n", "g">>,
       <<"a", "i">>,
       <<"t", "e", "n", "s", "o", "r", "f", "l", "o", "w">>,
       <<"p", "y", "t", "o", "r", "c", "h">>,
       <<"h", "t", "m", "l">>,
       <<"c", "s", "s">>,
       <<"t", "y", "p", "e", "s", "c", "r", "i", "p", "t">>,
       <<"p", "h", "p">>,
       <<"r", "u", "b", "y">>,
       <<"g", "o">>,
       <<"r", "u", "s", "t">>,
       <<"l", "e", "a", "d", "e", "r", "s", "h", "i", "p">>,
       <<"c", "o", "m", "m", "u", "n", "i", "c", "a", "t", "i", "o", "n">>,
       <<"t", "e", "a", "m", "w", "o", "r", "k">>,
       <<"p", "r", "o", "j", "e", "c", "t", " ", "m", "a", "n", "a", "g", "e", "m", "e", "n", "t">>,
       <<"a", "g", "i", "l", "e">>,
       <<"s", "c", "r", "u", "m">>,
       <<"p", "r", "o", "b", "l", "e", "m", " ", "s", "o", "l", "v", "i", "n", "g">>,
       <<"a", "n", "a", "l", "y", "t", "i", "c", "a", "l">>,
       <<"c", "r", "e", "a", "t", "i", "v", "e">> >>

StrSkills == <<"S", "k", "i", "l", "l", "s", ":", " ">>
StrExperienceAt == <<"E", "x", "p", "e", "r", "i", "e", "n", "c", "e", " ", "a", "t", ":", " ">>
StrCommaSpace == <<",", " ">>
StrDotSpace == <<".", " ">>
StrDot == <<".">>
StrEllipsis == <<".", ".", ".">>
FragJava == <<"J", "a", "v", "a">>
FragScript == <<"S", "c", "r", "i", "p", "t">>
FragSQL == <<"S", "Q", "L">>
FragSpace == <<" ">>
WordGoogle == <<"G", "o", "o", "g", "l", "e">>
WordAcme == <<"A", "c", "m", "e">>
WordParis == <<"P", "a", "r", "i", "s">>
WordJohn == <<"J", "o", "h", "n">>

(* ---------------------------- str methods ------------------------------ *)
IsUpper(c) == \E i \in 1..Len(UpperCase) : UpperCase[i] = c

IsLower(c) == \E i \in 1..Len(LowerCase) : LowerCase[i] = c

\* a cased character, in the sense str.title() uses to find word starts
IsCased(c) == IsUpper(c) \/ IsLower(c)

LowerChar(c) ==
    IF IsUpper(c)
    THEN LowerCase[CHOOSE i \in 1..Len(UpperCase) : UpperCase[i] = c]
    ELSE c

UpperChar(c) ==
    IF IsLower(c)
    THEN UpperCase[CHOOSE i \in 1..Len(LowerCase) : LowerCase[i] = c]
    ELSE c

\* str.lower()
Lower(text) ==
    LET F[i \in 0..Len(text)] ==
            IF i = 0 THEN <<>> ELSE Append(F[i - 1], LowerChar(text[i]))
    IN  F[Len(text)]

\* str.title(): upper-case a cased character that follows an uncased one
\* (or starts the string), lower-case every other cased character
Title(text) ==
    LET F[i \in 0..Len(text)] ==
            IF i = 0 THEN <<>>
            ELSE Append(F[i - 1],
                        IF i = 1 \/ ~IsCased(text[i - 1])
                        THEN UpperChar(text[i])
                        ELSE LowerChar(text[i]))
    IN  F[Len(text)]

\* a variant of Contains that only looks at the start of hay
ContainsAtStart(needle, hay) ==
    /\ Len(needle) <= Len(hay)
    /\ \A j \in 1..Len(needle) : hay[j] = needle[j]

\* the substring test `needle in hay`
Contains(needle, hay) ==
    \E s \in 0..(Len(hay) - Len(needle)) :
        \A j \in 1..Len(needle) : hay[s + j] = needle[j]

\* the elements of a sequence
Range(s) == {s[i] : i \in 1..Len(s)}

Reverse(s) ==
    LET F[i \in 0..Len(s)] ==
            IF i = 0 THEN <<>> ELSE Append(F[i - 1], s[Len(s) + 1 - i])
    IN  F[Len(s)]

\* xs[:n] for n >= 0
Prefix(xs, n) == SubSeq(xs, 1, IF n < Len(xs) THEN n ELSE Len(xs))

\* sep.join(parts)
Join(parts, sep) ==
    LET F[i \in 0..Len(parts)] ==
            IF i = 0 THEN <<>>
            ELSE IF i = 1 THEN parts[1]
            ELSE F[i - 1] \o sep \o parts[i]
    IN  F[Len(parts)]

\* The iteration order of a set of str depends on the process's string hash
\* seed; it is fixed within a process and differs between processes.
HashSeeds == {"forward", "backward"}

\* list(set(xs)): every element of xs once, in the order the seed gives
ListOfSet(xs, seed) ==
    LET F[i \in 0..Len(xs)] ==
            IF i = 0 THEN <<>>
            ELSE IF \E j \in 1..(i - 1) : xs[j] = xs[i]
                 THEN F[i - 1]
                 ELSE Append(F[i - 1], xs[i])
    IN  IF seed = "forward" THEN F[Len(xs)] ELSE Reverse(F[Len(xs)])

\* the loop `for skill in keywords: if skill in text_lower: append(skill.title())`
ScanKeywords(keywords, text_lower) ==
    LET F[i \in 0..Len(keywords)] ==
            IF i = 0 THEN <<>>
            ELSE IF Contains(keywords[i], text_lower)
                 THEN Append(F[i - 1], Title(keywords[i]))
                 ELSE F[i - 1]
    IN  F[Len(keywords)]

\* TalentFinderAI.extract_skills
ExtractSkills(text, seed) ==
    ListOfSet(ScanKeywords(skills_keywords, Lower(text)), seed)

(* ------------------------------ inputs --------------------------------- *)
Fragments == {FragJava, FragScript, FragSQL, FragSpace}

RECURSIVE TextsUpTo(_)
TextsUpTo(n) ==
    IF n = 0 THEN {<<>>}
    ELSE TextsUpTo(n - 1)
            \cup {t \o f : t \in TextsUpTo(n - 1), f \in Fragments}

Texts == TextsUpTo(MaxFrags)

\* what the NER pipeline may answer for a text: a list of entities
NerOutputs ==
    { <<>>,
      << [entity_group |-> "ORG", word |-> WordGoogle] >>,
      << [entity_group |-> "ORG", word |-> WordGoogle],
         [entity_group |-> "PER", word |-> WordJohn],
         [entity_group |-> "ORG", word |-> WordAcme],
         [entity_group |-> "ORG", word |-> WordGoogle],
         [entity_group |-> "LOC", word |-> WordParis],
         [entity_group |-> "MISC", word |-> WordJohn] >> }

\* what the T5 model may generate
GeneratedSummaries == {WordJohn \o FragSpace \o WordGoogle, <<>>}

\* the entity words of one group, in order of appearance
WordsOfGroup(entities, group) ==
    LET F[i \in 0..Len(entities)] ==
            IF i = 0 THEN <<>>
            ELSE IF entities[i].entity_group = group
                 THEN Append(F[i - 1], entities[i].word)
                 ELSE F[i - 1]
    IN  F[Len(entities)]

\* TalentFinderAI.parse_resume, given the entities self.ner returned
ParseResume(resume_text, entities, seed) ==
    [ names      |-> ListOfSet(WordsOfGroup(entities, "PER"), seed),
      companies  |-> ListOfSet(WordsOfGroup(entities, "ORG"), seed),
      locations  |-> ListOfSet(WordsOfGroup(entities, "LOC"), seed),
      skills     |-> ListOfSet(ScanKeywords(resume_skills_keywords,
                                            Lower(resume_text)), seed),
      job_titles |-> <<>>,
      education  |-> <<>> ]

\* the fallback branch of summarize_profile
FallbackSummary(profile_text, entities, seed) ==
    LET skills == ExtractSkills(profile_text, seed)
        parsed == ParseResume(profile_text, entities, seed)
        summary == StrSkills \o Join(Prefix(skills, 5), StrCommaSpace)
                        \o StrDotSpace
    IN  IF parsed.companies # <<>>
        THEN summary \o StrExperienceAt
                \o Join(Prefix(parsed.companies, 2), StrCommaSpace) \o StrDot
        ELSE summary

(* ------------------------------- state --------------------------------- *)
VARIABLES
    status,     \* "unconstructed", "ready" (an instance exists), "ImportError"
    failure,    \* the first model load that failed during __init__, or "none"
    self,       \* the instance's attributes
    hashseed,   \* the process's string hash seed
    call,       \* the last method call and its arguments
    ret         \* what that call returned or raised

vars == <<status, failure, self, hashseed, call, ret>>

\* the load steps of __init__, in program order; "summarizer" stands for the
\* whole inner try block (the T5 import, tokenizer, model and eval())
LoadSteps == <<"ner", "similarity_model", "summarizer">>

LoadFailures == Range(LoadSteps) \cup {"none"}

Unset ==
    [ ner |-> "unset", similarity_model |-> "unset",
      summarizer_tokenizer |-> "unset", summarizer_model |-> "unset",
      has_summarizer |-> "unset" ]

\* a variant of SummarizerUnavailable that leaves the flag on
SummarizerUnavailableFlagOn ==
    [ has_summarizer |-> "True",
      summarizer_tokenizer |-> "None",
      summarizer_model |-> "None" ]

\* the assignments of the inner `except Exception` handler
SummarizerUnavailable ==
    [ has_summarizer |-> "False",
      summarizer_tokenizer |-> "None",
      summarizer_model |-> "None" ]

\* the assignments of the inner try block when nothing fails
SummarizerLoaded ==
    [ has_summarizer |-> "True",
      summarizer_tokenizer |-> "loaded",
      summarizer_model |-> "loaded" ]

\* the failures the outer handler turns into ImportError
RaisesImportError(f) == f \in {"ner", "similarity_model"}

\* the attributes __init__ leaves on the instance it returns
InitAttrs(f) ==
    LET s == IF f = "none" THEN SummarizerLoaded ELSE SummarizerUnavailable
    IN  [ ner |-> "loaded", similarity_model |-> "loaded",
          summarizer_tokenizer |-> s.summarizer_tokenizer,
          summarizer_model |-> s.summarizer_model,
          has_summarizer |-> s.has_summarizer ]

NoCall == [op |-> "none"]

NoRet == [kind |-> "none"]

Init ==
    /\ status = "unconstructed"
    /\ failure = "none"
    /\ self = Unset
    /\ hashseed \in HashSeeds
    /\ call = NoCall
    /\ ret = NoRet

\* TalentFinderAI.__init__
Construct ==
    /\ status = "unconstructed"
    /\ \E f \in LoadFailures :
        /\ failure' = f
        /\ IF RaisesImportError(f)
           THEN status' = "ImportError" /\ self' = Unset
           ELSE status' = "ready" /\ self' = InitAttrs(f)
    /\ UNCHANGED <<hashseed, call, ret>>

\* TalentFinderAI.extract_skills
extract_skills ==
    /\ status = "ready"
    /\ call = NoCall
    /\ \E text \in Texts :
        /\ call' = [op |-> "extract_skills", text |-> text]
        /\ ret' = [kind |-> "list", value |-> ExtractSkills(text, hashseed)]
    /\ UNCHANGED <<status, failure, self, hashseed>>

\* TalentFinderAI.parse_resume
parse_resume ==
    /\ status = "ready"
    /\ call = NoCall
    /\ \E text \in Texts, entities \in NerOutputs :
        /\ call' = [op |-> "parse_resume", text |-> text]
        /\ ret' = [kind |-> "dict",
                   value |-> ParseResume(text, entities, hashseed)]
    /\ UNCHANGED <<status, failure, self, hashseed>>

\* TalentFinderAI.summarize_profile
summarize_profile ==
    /\ status = "ready"
    /\ call = NoCall
    /\ \E text \in Texts, entities \in NerOutputs,
          generated \in GeneratedSummaries :
        /\ call' = [op |-> "summarize_profile", text |-> text,
                    entities |-> entities]
        /\ IF self.has_summarizer = "False"
           THEN ret' = [kind |-> "str", branch |-> "fallback",
                        value |-> FallbackSummary(text, entities, hashseed)]
           ELSE IF self.summarizer_tokenizer = "loaded"
                    /\ self.summarizer_model = "loaded"
                THEN ret' = [kind |-> "str", branch |-> "generated",
                             value |-> generated]
                ELSE \* calling None raises
                     ret' = [kind |-> "TypeError"]
    /\ UNCHANGED <<status, failure, self, hashseed>>

\* the caller takes the result; the instance is ready for the next call
Return ==
    /\ call # NoCall
    /\ call' = NoCall
    /\ ret' = NoRet
    /\ UNCHANGED <<status, failure, self, hashseed>>

(* ----------------------------- matching -------------------------------- *)
\* the length profile_preview is cut to
PreviewLen == 150

\* what similarity_model.encode may answer for a text
Embeddings == {<<1, 0>>, <<-1, 1>>, <<0, 0>>}

Dot(a, b) == a[1] * b[1] + a[2] * b[2]

\* sklearn's cosine_similarity of two vectors: the dot product of the two
\* normalised vectors, a vector of norm zero being left as it is; the result
\* is rounded towards zero to a multiple of 1/ScoreScale
CosineSimilarity(a, b) ==
    LET d  == Dot(a, b)
        na == IF Dot(a, a) = 0 THEN 1 ELSE Dot(a, a)
        nb == IF Dot(b, b) = 0 THEN 1 ELSE Dot(b, b)
        m  == CHOOSE r \in 0..ScoreScale :
                /\ r * r * na * nb <= d * d * ScoreScale * ScoreScale
                /\ (r + 1) * (r + 1) * na * nb > d * d * ScoreScale * ScoreScale
    IN  IF d < 0 THEN 0 - m ELSE m

\* the elements of xs that are in ys / that are not in ys
Intersection(xs, ys) ==
    LET InYs(x) == x \in Range(ys) IN SelectSeq(xs, InYs)

Difference(xs, ys) ==
    LET NotInYs(x) == x \notin Range(ys) IN SelectSeq(xs, NotInYs)

\* a variant of SkillMatchRatio without the guard on required_skills
SkillMatchRatioUnguarded(matched_skills, required_skills) ==
    [num |-> Len(matched_skills), den |-> Len(required_skills)]

\* len(matched_skills) / len(required_skills) if required_skills else 0,
\* as the fraction num/den
SkillMatchRatio(matched_skills, required_skills) ==
    IF Len(required_skills) # 0
    THEN [num |-> Len(matched_skills), den |-> Len(required_skills)]
    ELSE [num |-> 0, den |-> 1]

\* set(required_skills) & set(candidate_skills)
MatchedSkills(required_skills, candidate_skills, seed) ==
    ListOfSet(Intersection(required_skills, candidate_skills), seed)

\* a variant of MissingSkills with the operands swapped
MissingSkillsSwapped(required_skills, candidate_skills, seed) ==
    ListOfSet(Difference(candidate_skills, required_skills), seed)

\* set(required_skills) - set(candidate_skills)
MissingSkills(required_skills, candidate_skills, seed) ==
    ListOfSet(Difference(required_skills, candidate_skills), seed)

\* the skill part of match_candidate_to_job
SkillMatch(candidate_profile, job_description, seed) ==
    LET required_skills  == ExtractSkills(job_description, seed)
        candidate_skills == ExtractSkills(candidate_profile, seed)
        matched_skills   == MatchedSkills(required_skills, candidate_skills,
                                          seed)
    IN  [ skill_match_ratio |-> SkillMatchRatio(matched_skills,
                                                required_skills),
          matched_skills    |-> matched_skills,
          missing_skills    |-> MissingSkills(required_skills,
                                              candidate_skills, seed),
          candidate_skills  |-> candidate_skills,
          required_skills   |-> required_skills ]

\* float(similarity_score)
OverallMatchScore(candidate_embedding, job_embedding) ==
    CosineSimilarity(candidate_embedding, job_embedding)

\* the dictionary match_candidate_to_job returns
MatchResult(score, skills) ==
    [ overall_match_score |-> score,
      skill_match_ratio   |-> skills.skill_match_ratio,
      matched_skills      |-> skills.matched_skills,
      missing_skills      |-> skills.missing_skills,
      candidate_skills    |-> skills.candidate_skills,
      required_skills     |-> skills.required_skills ]

\* profile[:150] + "..." if len(profile) > 150 else profile
ProfilePreview(profile) ==
    IF Len(profile) > PreviewLen
    THEN SubSeq(profile, 1, PreviewLen) \o StrEllipsis
    ELSE profile

\* the entry find_top_candidates makes of candidate number i (from 0)
CandidateEntry(m, i, profile) ==
    [ overall_match_score |-> m.overall_match_score,
      skill_match_ratio   |-> m.skill_match_ratio,
      matched_skills      |-> m.matched_skills,
      missing_skills      |-> m.missing_skills,
      candidate_skills    |-> m.candidate_skills,
      required_skills     |-> m.required_skills,
      candidate_id        |-> i,
      profile_preview     |-> ProfilePreview(profile) ]

\* a variant of InsertByScore for a sort without reverse=True
InsertByScoreAscending(s, x) ==
    LET k == Cardinality({j \in 1..Len(s) :
                 s[j].overall_match_score <= x.overall_match_score})
    IN  SubSeq(s, 1, k) \o <<x>> \o SubSeq(s, k + 1, Len(s))

\* where results.sort(..., reverse=True) puts x among the sorted entries s:
\* after every entry whose score is at least x's (the sort is stable)
InsertByScore(s, x) ==
    LET k == Cardinality({j \in 1..Len(s) :
                 s[j].overall_match_score >= x.overall_match_score})
    IN  SubSeq(s, 1, k) \o <<x>> \o SubSeq(s, k + 1, Len(s))

\* results.sort(key=lambda x: x["overall_match_score"], reverse=True)
SortByScore(results) ==
    LET F[i \in 0..Len(results)] ==
            IF i = 0 THEN <<>> ELSE InsertByScore(F[i - 1], results[i])
    IN  F[Len(results)]

\* results[:top_k], with Python's reading of a negative or too large stop
SliceTo(results, top_k) ==
    LET n    == Len(results)
        stop == IF top_k < 0
                THEN (IF n + top_k < 0 THEN 0 ELSE n + top_k)
                ELSE (IF top_k > n THEN n ELSE top_k)
    IN  SubSeq(results, 1, stop)

\* find_top_candidates, given each candidate's match result
TopCandidates(matches, candidate_profiles, top_k) ==
    LET F[i \in 0..Len(matches)] ==
            IF i = 0 THEN <<>>
            ELSE Append(F[i - 1],
                        CandidateEntry(matches[i], i - 1,
                                       candidate_profiles[i]))
        results == F[Len(matches)]
    IN  SliceTo(SortByScore(results), top_k)

\* the profiles and job descriptions matching is exercised on
ProfilePool == {FragJava, FragJava \o FragScript, FragSQL \o FragSpace}

JobPool == {FragJava \o FragSQL, FragSpace}

RECURSIVE ListsUpTo(_, _)
ListsUpTo(S, n) ==
    IF n = 0 THEN {<<>>}
    ELSE ListsUpTo(S, n - 1)
            \cup {Append(l, x) : l \in ListsUpTo(S, n - 1), x \in S}

TopKs == (0 - MaxTopK)..MaxTopK

\* the skill parts of the matches of every candidate, in order
SkillMatches(candidate_profiles, job_description, seed) ==
    LET F[i \in 0..Len(candidate_profiles)] ==
            IF i = 0 THEN <<>>
            ELSE Append(F[i - 1],
                        SkillMatch(candidate_profiles[i], job_description,
                                   seed))
    IN  F[Len(candidate_profiles)]

\* the loop of find_top_candidates: match_candidate_to_job of every candidate
Matches(candidate_profiles, job_description, encode, skills) ==
    LET F[i \in 0..Len(candidate_profiles)] ==
            IF i = 0 THEN <<>>
            ELSE Append(F[i - 1],
                        MatchResult(
                            OverallMatchScore(encode[candidate_profiles[i]],
                                              encode[job_description]),
                            skills[i]))
    IN  F[Len(candidate_profiles)]

\* TalentFinderAI.match_candidate_to_job
match_candidate_to_job ==
    /\ status = "ready"
    /\ call = NoCall
    /\ \E candidate_profile \in Texts, job_description \in JobPool :
       \E skills \in {SkillMatch(candidate_profile, job_description,
                                 hashseed)} :
       \E candidate_embedding \in Embeddings, job_embedding \in Embeddings :
        /\ call' = [op |-> "match_candidate_to_job",
                    candidate_profile |-> candidate_profile,
                    job_description |-> job_description,
                    candidate_embedding |-> candidate_embedding,
                    job_embedding |-> job_embedding]
        /\ ret' = [kind |-> "dict",
                   value |-> MatchResult(
                                OverallMatchScore(candidate_embedding,
                                                  job_embedding),
                                skills)]
    /\ UNCHANGED <<status, failure, self, hashseed>>

\* TalentFinderAI.find_top_candidates
find_top_candidates ==
    /\ status = "ready"
    /\ call = NoCall
    /\ \E job_description \in JobPool,
          candidate_profiles \in ListsUpTo(ProfilePool, MaxCandidates) :
       \E skills \in {SkillMatches(candidate_profiles, job_description,
                                   hashseed)} :
       \E encode \in [Range(candidate_profiles) \cup {job_description}
                        -> Embeddings] :
       \E matches \in {Matches(candidate_profiles, job_description, encode,
                               skills)} :
       \E top_k \in TopKs :
        /\ call' = [op |-> "find_top_candidates",
                    job_description |-> job_description,
                    candidate_profiles |-> candidate_profiles,
                    encode |-> encode,
                    top_k |-> top_k]
        /\ ret' = [kind |-> "list",
                   value |-> TopCandidates(matches, candidate_profiles,
                                           top_k)]
    /\ UNCHANGED <<status, failure, self, hashseed>>

(* ----------------------------- properties ------------------------------ *)
Min(a, b) == IF a < b THEN a ELSE b

Max(a, b) == IF a > b THEN a ELSE b

IsFindTop == call.op = "find_top_candidates"

IsMatch == call.op = "match_candidate_to_job"

\* the score of candidate number c (from 1) of the last find_top_candidates
ScoreOf(c) ==
    CosineSimilarity(call.encode[call.candidate_profiles[c]],
                     call.encode[call.job_description])

\* the candidate ids of the entries find_top_candidates returned
ReturnedIds == {ret.value[i].candidate_id : i \in 1..Len(ret.value)}

\* C1: find_top_candidates returns its results sorted by
\* overall_match_score, highest first: every returned entry has a score
\* at least that of the entry after it, and no candidate left out of the
\* result has a score strictly greater than a returned one.
C1_SortedHighestFirst ==
    IsFindTop =>
        /\ \A i \in 1..(Len(ret.value) - 1) :
              ret.value[i].overall_match_score
                  >= ret.value[i + 1].overall_match_score
        /\ \A i \in 1..Len(ret.value) :
              /\ ret.value[i].candidate_id + 1
                    \in 1..Len(call.candidate_profiles)
              /\ ret.value[i].overall_match_score
                    = ScoreOf(ret.value[i].candidate_id + 1)
        /\ \A c \in 1..Len(call.candidate_profiles) :
              (c - 1) \notin ReturnedIds =>
                  \A i \in 1..Len(ret.value) :
                      ScoreOf(c) <= ret.value[i].overall_match_score

\* a call whose candidates arrive in ascending score order, of which the
\* sort moves the last to the front and the slice leaves the first one out
C1_Witness ==
    /\ IsFindTop
    /\ Len(call.candidate_profiles) = 3
    /\ Len(ret.value) = 2
    /\ ScoreOf(1) < ScoreOf(2)
    /\ ScoreOf(2) < ScoreOf(3)
    /\ ret.value[1].candidate_id = 2
    /\ ret.value[2].candidate_id = 1

\* C2: for every integer top_k (0 and negative values included) and every
\* list of n candidate profiles, find_top_candidates returns exactly
\* min(max(top_k, 0), n) entries, so never more than top_k candidates.
C2_ReturnsTopKEntries ==
    IsFindTop =>
        Len(ret.value)
            = Min(Max(call.top_k, 0), Len(call.candidate_profiles))

\* C3: the overall_match_score match_candidate_to_job returns is between
\* 0 and 1 inclusive, whatever cosine similarity the two embeddings have.
C3_ScoreBetween0And1 ==
    IsMatch =>
        /\ ret.value.overall_match_score >= 0
        /\ ret.value.overall_match_score <= ScoreScale

\* some keyword of extract_skills occurs in the text, whatever the case
SameLetter(a, b) ==
    \/ a = b
    \/ \E i \in 1..Len(UpperCase) : {a, b} = {UpperCase[i], LowerCase[i]}

OccursIgnoringCase(keyword, text) ==
    \E s \in 0..(Len(text) - Len(keyword)) :
        \A j \in 1..Len(keyword) : SameLetter(text[s + j], keyword[j])

HasSkillKeyword(text) ==
    \E k \in 1..Len(skills_keywords) :
        OccursIgnoringCase(skills_keywords[k], text)

\* C4: the skill_match_ratio match_candidate_to_job returns is between 0
\* and 1 inclusive: it is (number of matched skills) / (number of required
\* skills) when the job description contains a skill keyword and 0, with no
\* division by zero, when it contains none; it is 1 exactly when
\* required_skills is non-empty and missing_skills is empty.
C4_SkillMatchRatio ==
    IsMatch =>
        LET r == ret.value.skill_match_ratio
            v == ret.value
        IN  /\ r.den > 0
            /\ 0 <= r.num
            /\ r.num <= r.den
            /\ HasSkillKeyword(call.job_description) =>
                  /\ r.num = Len(v.matched_skills)
                  /\ r.den = Len(v.required_skills)
            /\ ~HasSkillKeyword(call.job_description) => r.num = 0
            /\ (r.num = r.den)
                  <=> (v.required_skills # <<>> /\ v.missing_skills = <<>>)

\* a match with two required skills of which the candidate has one
C4_Witness ==
    /\ IsMatch
    /\ ret.value.skill_match_ratio = [num |-> 1, den |-> 2]
    /\ Len(ret.value.missing_skills) = 1

\* C5: in every result of match_candidate_to_job, matched_skills and
\* missing_skills partition required_skills: they are disjoint, their
\* union is the set of required_skills, every matched skill is in
\* candidate_skills and no missing skill is.
C5_SkillsPartition ==
    IsMatch =>
        LET matched   == Range(ret.value.matched_skills)
            missing   == Range(ret.value.missing_skills)
            required  == Range(ret.value.required_skills)
            candidate == Range(ret.value.candidate_skills)
        IN  /\ matched \cap missing = {}
            /\ matched \cup missing = required
            /\ matched \subseteq candidate
            /\ missing \cap candidate = {}

\* a match with a matched skill, a missing skill and a candidate skill the
\* job does not require
C5_Witness ==
    /\ IsMatch
    /\ ret.value.matched_skills # <<>>
    /\ ret.value.missing_skills # <<>>
    /\ Range(ret.value.candidate_skills)
          \ Range(ret.value.required_skills) # {}

\* C6: only the summarizer is optional. If loading it fails while the NER
\* and similarity models load, construction succeeds with has_summarizer
\* False and summarizer_tokenizer and summarizer_model None, and every
\* later summarize_profile call returns the keyword-based fallback summary
\* without using the missing tokenizer or model; if loading the NER or the
\* similarity model fails, construction raises ImportError and there is no
\* instance.
C6_OnlySummarizerOptional ==
    /\ (status # "unconstructed" /\ failure = "summarizer") =>
          /\ status = "ready"
          /\ self.ner = "loaded"
          /\ self.similarity_model = "loaded"
          /\ self.has_summarizer = "False"
          /\ self.summarizer_tokenizer = "None"
          /\ self.summarizer_model = "None"
          /\ call.op = "summarize_profile" =>
                /\ ret.kind = "str"
                /\ ret.branch = "fallback"
                /\ Len(ret.value) >= Len(StrSkills)
                /\ SubSeq(ret.value, 1, Len(StrSkills)) = StrSkills
    /\ failure \in {"ner", "similarity_model"} =>
          /\ status = "ImportError"
          /\ self = Unset
          /\ call = NoCall
    /\ status = "ImportError" => failure \in {"ner", "similarity_model"}

\* summarize_profile answered with the fallback summary, naming a skill and
\* a company, on an instance built without the summarizer
C6_Witness ==
    /\ status = "ready"
    /\ failure = "summarizer"
    /\ call.op = "summarize_profile"
    /\ ret.kind = "str"
    /\ ret.value = StrSkills \o FragJava \o StrDotSpace \o StrExperienceAt
                        \o WordGoogle \o StrDot

\* C7: extract_skills(text) contains the title-cased form of a keyword of
\* its fixed list if and only if the keyword occurs in the text, case
\* ignored and without a word-boundary check (a text containing
\* 'javascript' also yields 'Java'); it contains nothing else and no entry
\* twice.
C7_KeywordSubstringScan ==
    call.op = "extract_skills" =>
        LET found == Range(ret.value)
        IN  /\ \A k \in 1..Len(skills_keywords) :
                  Title(skills_keywords[k]) \in found
                      <=> OccursIgnoringCase(skills_keywords[k], call.text)
            /\ found \subseteq
                  {Title(skills_keywords[k]) : k \in 1..Len(skills_keywords)}
            /\ Cardinality(found) = Len(ret.value)
            /\ OccursIgnoringCase(Lower(FragJava \o FragScript), call.text)
                  => FragJava \in found
            /\ OccursIgnoringCase(Lower(FragSQL), call.text)
                  <=> <<"S", "q", "l">> \in found

\* 'JavaScript' yields exactly Java and Javascript
C7_Witness ==
    /\ call.op = "extract_skills"
    /\ call.text = FragJava \o FragScript
    /\ Len(ret.value) = 2
    /\ FragJava \in Range(ret.value)
    /\ <<"J", "a", "v", "a", "s", "c", "r", "i", "p", "t">>
          \in Range(ret.value)

Next ==
    \/ Construct
    \/ extract_skills
    \/ parse_resume
    \/ summarize_profile
    \/ match_candidate_to_job
    \/ find_top_candidates
    \/ Return

Spec == Init /\ [][Next]_vars

====
